---- MODULE Spec2Model ----
(***************************************************************************)
(* Model of ferris-fetcher's backend: the HTTP handlers of main.rs (the    *)
(* task store, the registry of abort handles) and the download engine of   *)
(* engine.rs (one orchestration task per run, its detached range workers   *)
(* and its progress reporter).                                             *)
(*                                                                         *)
(* Granularity: one action per stretch of code between two suspension      *)
(* points (an .await that can yield, or a point where another tokio worker *)
(* thread can run a different handler).  The store lock is taken and       *)
(* released inside one action.  tokio::spawn-ed tasks are independent: the *)
(* abort handle kept in the registry is the handle of the orchestration    *)
(* task alone; dropping the JoinHandles of the range workers and of the    *)
(* reporter detaches them.  abort() takes effect at the cancelled task's    *)
(* next suspension point; since every action ends at one, an aborted       *)
(* orchestration takes no further step.                                    *)
(***************************************************************************)
EXTENDS Integers, Sequences, FiniteSets, TLC

VARIABLES
    tasks,      \* AppState: Vec<DownloadTask>, as a sequence of records
    registry,   \* TaskRegistry: DashMap<id, AbortHandle>, id -> run
    runs,       \* every engine run ever spawned, in spawn order
    calls,      \* handler invocations suspended between two of their steps
    next_id,    \* stands for Uuid::new_v4(): the next fresh task id
    faults,     \* I/O and transport failures that have happened so far
    plan        \* the range loop of engine.rs:118-129 run on its own

vars == <<tasks, registry, runs, calls, next_id, faults, plan>>

(* ------------------------------- bounds -------------------------------- *)

MaxTasks == 1       \* add_download calls
MaxRuns == 2        \* engine runs spawned in all
MaxCalls == 2       \* handler invocations in flight at once
MaxLoad == 3        \* engine runs spawned plus handler invocations in flight
MaxFrags == 1       \* body fragments of a single-stream response
MaxFaults == 1      \* I/O and transport failures in one behaviour
PlanMaxSize == 20   \* largest content length handed to the range loop

(* ------------------------- program constants --------------------------- *)

chunk_count == 8

\* u64 arithmetic wraps modulo 2^64 in a release build.  TLC's integers are
\* 32 bits wide, so the word is scaled down; every length the model feeds
\* to the arithmetic is far below it, as real lengths are far below 2^64.
U64Modulus == 2 ^ 20

\* Content-Length values the HEAD probe reports (0: absent or unparsable).
ProbeLengths == {0, chunk_count}

\* URLs as their '/'-separated parts: "http://host/a.bin".
Urls == { <<"http:", "", "host", "a.bin">> }

Ids == 1..MaxTasks

(* --------------------------- DownloadTask ------------------------------ *)

None == <<>>
Some(v) == <<v>>

ErrorStatuses == {"Error(io)", "Error(transport)"}
IsError(s) == s \in ErrorStatuses

\* url.split('/').last().unwrap_or("download.bin"): split always yields at
\* least one part, so the fallback is taken only for no part at all.
Filename(url) == IF Len(url) = 0 THEN "download.bin" ELSE url[Len(url)]

\* get_download_dir().join(filename)
FilePath(url) == <<"Downloads", "FF", Filename(url)>>

NewTask(id, url) ==
    [id |-> id, url |-> url, filename |-> "Pending...", total_size |-> None,
     downloaded_bytes |-> 0, status |-> "Pending", save_path |-> <<>>]

\* tasks.iter().find(|t| t.id == id): the index of the first match, 0 if none
Find(ts, id) ==
    IF \E k \in 1..Len(ts) : ts[k].id = id
    THEN CHOOSE k \in 1..Len(ts) :
            ts[k].id = id /\ \A j \in 1..(k - 1) : ts[j].id # id
    ELSE 0

Has(ts, id) == Find(ts, id) # 0

(* ------------------------------ a run ---------------------------------- *)

\* pc of the orchestration task (start_multistream_download inside the
\* spawned future):
\*   "setup"   spawned; lines 44-75 not yet done
\*   "start"   probe and file ready; at the lock of line 79
\*   "join"    multi-stream: awaiting the workers' JoinHandles (167-169)
\*   "get"     single-stream: at the GET of line 173
\*   "stream"  single-stream: in the loop of lines 176-179
\*   "done"    returned Ok(())     "failed"  returned Err(_)
\*   "aborted" cancelled through its abort handle
\*   "ended"   the orchestration, its workers and its reporter are all gone
LivePcs == {"setup", "start", "join", "get", "stream"}

NewRun(id, url) ==
    [task |-> id, url |-> url, pc |-> "setup",
     content_length |-> 0, accepts_ranges |-> FALSE,
     progress_counter |-> 0,
     live |-> 0,            \* range workers spawned and not yet terminated
     panicked |-> 0,        \* range workers that ended in a panic
     ranged |-> FALSE,      \* a request carrying a Range header was built
     frags |-> 0,           \* fragments the single-stream loop has written
     reporter |-> "none",   \* "none" | "running" | "stopped"
     paused |-> FALSE]      \* pause_download has called abort() on the handle

\* Some task of the run can still write to the destination file.
RunLive(run) == run.pc \in LivePcs \/ run.live > 0

\* What is left of a run whose tasks have ended.  A finished tokio task holds
\* nothing: the locals of the orchestration go when it ends, the captured
\* counter and ranges when the last worker and the reporter have ended too.
Drop(run) ==
    IF run.pc \in LivePcs THEN run
    ELSE IF run.live > 0 THEN [run EXCEPT !.frags = 0]
    ELSE IF run.reporter = "running"
         THEN [run EXCEPT !.frags = 0, !.content_length = 0,
                          !.accepts_ranges = FALSE, !.panicked = 0,
                          !.ranged = FALSE]
    ELSE [NewRun(run.task, run.url) EXCEPT !.pc = "ended"]

DropAll(rs) == [r \in DOMAIN rs |-> Drop(rs[r])]

\* AbortHandle::abort(): cancels the orchestration task if it has not ended;
\* the tasks it spawned are not touched.
Abort(rs, r, who) ==
    [rs EXCEPT ![r].pc = IF @ \in LivePcs THEN "aborted" ELSE @,
               ![r].paused = (who = "pause")]

RECURSIVE AbortEach(_, _, _)
AbortEach(rs, S, who) ==
    IF S = {} THEN rs
    ELSE LET r == CHOOSE x \in S : TRUE
         IN AbortEach(Abort(rs, r, who), S \ {r}, who)

(* ------------------------ the range loop ------------------------------- *)

\* u64 subtraction: the wrapped result of a release build.
SubU64(a, b) == IF a >= b THEN a - b ELSE U64Modulus - (b - a)

chunk_size(content_length) == content_length \div chunk_count

\* i ranges over 0..chunk_count-1
RangeStart(content_length, i) == i * chunk_size(content_length)

RangeEnd(content_length, i) ==
    IF i = chunk_count - 1
    THEN SubU64(content_length, 1)
    ELSE SubU64((i + 1) * chunk_size(content_length), 1)

\* Whether computing the end of range i underflows (a panic with overflow
\* checks on, a wrap without).
RangeUnderflows(content_length, i) ==
    IF i = chunk_count - 1
    THEN content_length < 1
    ELSE (i + 1) * chunk_size(content_length) < 1

(* ------------------------------- Init ---------------------------------- *)

PlanIdle == [content_length |-> 0, i |-> chunk_count, ranges |-> <<>>,
             underflow |-> FALSE]

\* main.rs:26-28: the store as load_history gives it when there is no
\* history.json, an empty registry, no run.
Init ==
    /\ tasks = <<>>
    /\ registry = <<>>
    /\ runs = <<>>
    /\ calls = {}
    /\ next_id = 1
    /\ faults = 0
    /\ plan = PlanIdle

\* A suspended handler: what it does next (op), its path or new id, the url
\* of its payload, and a run: the one it spawned (add, resume) or the last
\* one that existed when it was called (delete_all).
Call(op, id, run, url) == [op |-> op, id |-> id, run |-> run, url |-> url]

\* Runs not yet spawned that in-flight handlers are committed to spawn.
PendingSpawns == Cardinality({c \in calls : c.op = "add_spawn"})

Load == Len(runs) + PendingSpawns + Cardinality(calls)

\* Room for one more handler invocation; for one that will spawn a run.
CanCall == Cardinality(calls) < MaxCalls /\ Load < MaxLoad
CanSpawn == Len(runs) + PendingSpawns < MaxRuns /\ Load + 1 < MaxLoad

Insert(reg, id, r) == [k \in (DOMAIN reg) \cup {id} |-> IF k = id THEN r ELSE reg[k]]
Remove(reg, id) == [k \in (DOMAIN reg) \ {id} |-> reg[k]]

(* ----------------------------- handlers -------------------------------- *)

\* add_download, lines 190-204: build the record and push it under the lock.
\* save_history (205) awaits the lock again before the spawn.
AddPush(url) ==
    /\ next_id <= MaxTasks
    /\ CanCall
    /\ CanSpawn
    /\ tasks' = Append(tasks, NewTask(next_id, url))
    /\ calls' = calls \cup {Call("add_spawn", next_id, 0, url)}
    /\ next_id' = next_id + 1
    /\ UNCHANGED <<registry, runs, faults, plan>>

\* add_download, lines 207-213: tokio::spawn of the engine run.
AddSpawn(c) ==
    /\ c \in calls
    /\ c.op = "add_spawn"
    /\ runs' = Append(runs, NewRun(c.id, c.url))
    /\ calls' = (calls \ {c}) \cup {Call("add_register", c.id, Len(runs) + 1, c.url)}
    /\ UNCHANGED <<tasks, registry, next_id, faults, plan>>

\* add_download, line 216: registry.insert(id, handle.abort_handle()).
AddRegister(c) ==
    /\ c \in calls
    /\ c.op = "add_register"
    /\ registry' = Insert(registry, c.id, c.run)
    /\ calls' = calls \ {c}
    /\ UNCHANGED <<tasks, runs, next_id, faults, plan>>

\* pause_download, lines 74-76: take the handle and abort it.
PauseAbort(id) ==
    /\ CanCall
    /\ IF id \in DOMAIN registry
       THEN /\ registry' = Remove(registry, id)
            /\ runs' = DropAll(Abort(runs, registry[id], "pause"))
       ELSE UNCHANGED <<registry, runs>>
    /\ calls' = calls \cup {Call("pause_mark", id, 0, <<>>)}
    /\ UNCHANGED <<tasks, next_id, faults, plan>>

\* pause_download, lines 78-81: under the lock, status = Paused.
PauseMark(c) ==
    /\ c \in calls
    /\ c.op = "pause_mark"
    /\ tasks' = IF Has(tasks, c.id)
                THEN [tasks EXCEPT ![Find(tasks, c.id)].status = "Paused"]
                ELSE tasks
    /\ calls' = calls \ {c}
    /\ UNCHANGED <<registry, runs, next_id, faults, plan>>

\* Whether resume_download goes on for a record of this status
\* (lines 93-95: any record that is found).
ResumeGuard(status) == TRUE

\* resume_download, lines 91-108: under the lock, status = Pending; then the
\* spawn of a new run for the record's url.
ResumeSpawn(id) ==
    /\ CanCall
    /\ CanSpawn
    /\ IF Has(tasks, id) /\ ResumeGuard(tasks[Find(tasks, id)].status)
       THEN /\ tasks' = [tasks EXCEPT ![Find(tasks, id)].status = "Pending"]
            /\ runs' = Append(runs, NewRun(id, tasks[Find(tasks, id)].url))
            /\ calls' = calls \cup {Call("resume_register", id, Len(runs) + 1, <<>>)}
       ELSE UNCHANGED <<tasks, runs, calls>>
    /\ UNCHANGED <<registry, next_id, faults, plan>>

\* resume_download, line 111: registry.insert(id, handle.abort_handle()).
ResumeRegister(c) ==
    /\ c \in calls
    /\ c.op = "resume_register"
    /\ registry' = Insert(registry, c.id, c.run)
    /\ calls' = calls \ {c}
    /\ UNCHANGED <<tasks, runs, next_id, faults, plan>>

\* delete_single, lines 123-125: take the handle and abort it.
DeleteAbort(id) ==
    /\ CanCall
    /\ IF id \in DOMAIN registry
       THEN /\ registry' = Remove(registry, id)
            /\ runs' = DropAll(Abort(runs, registry[id], "delete"))
       ELSE UNCHANGED <<registry, runs>>
    /\ calls' = calls \cup {Call("delete_retain", id, 0, <<>>)}
    /\ UNCHANGED <<tasks, next_id, faults, plan>>

\* delete_single, lines 127-128: tasks.retain(|t| t.id != id).
DeleteRetain(c) ==
    /\ c \in calls
    /\ c.op = "delete_retain"
    /\ tasks' = SelectSeq(tasks, LAMBDA t : t.id # c.id)
    /\ calls' = calls \ {c}
    /\ UNCHANGED <<registry, runs, next_id, faults, plan>>

\* delete_completed: tasks.retain(|t| t.status != Completed).
DeleteCompleted ==
    /\ tasks' = SelectSeq(tasks, LAMBDA t : t.status # "Completed")
    /\ UNCHANGED <<registry, runs, calls, next_id, faults, plan>>

\* delete_all, line 145: the first registry.clear().
DeleteAllClear ==
    /\ CanCall
    /\ registry' = <<>>
    /\ calls' = calls \cup {Call("delete_all_abort", 0, Len(runs), <<>>)}
    /\ UNCHANGED <<tasks, runs, next_id, faults, plan>>

\* delete_all, lines 148-151: abort every handle the registry holds now,
\* then clear it again.
DeleteAllAbort(c) ==
    /\ c \in calls
    /\ c.op = "delete_all_abort"
    /\ runs' = DropAll(AbortEach(runs, {registry[id] : id \in DOMAIN registry},
                                "delete_all"))
    /\ registry' = <<>>
    /\ calls' = (calls \ {c}) \cup {[c EXCEPT !.op = "delete_all_tasks"]}
    /\ UNCHANGED <<tasks, next_id, faults, plan>>

\* delete_all, lines 153-154: under the lock, tasks.clear().
DeleteAllTasks(c) ==
    /\ c \in calls
    /\ c.op = "delete_all_tasks"
    /\ tasks' = <<>>
    /\ calls' = calls \ {c}
    /\ UNCHANGED <<registry, runs, next_id, faults, plan>>

(* ------------------------------ engine --------------------------------- *)

\* engine.rs:44-75, one of the four `?` returns Err: create_dir_all, the HEAD
\* request, File::create or set_len fails.  The caller (main.rs:107, 212)
\* drops the result.
SetupFail(r) ==
    /\ runs[r].pc = "setup"
    /\ runs' = DropAll([runs EXCEPT ![r].pc = "failed"])
    /\ UNCHANGED <<tasks, registry, calls, next_id, plan>>
    /\ faults < MaxFaults
    /\ faults' = faults + 1

\* engine.rs:44-75 succeed: the probe has reported len and ranges, the file
\* exists and has length len.
SetupOk(r, len, ranges) ==
    /\ runs[r].pc = "setup"
    /\ runs' = DropAll([runs EXCEPT ![r].pc = "start",
                            ![r].content_length = len,
                            ![r].accepts_ranges = ranges])
    /\ UNCHANGED <<tasks, registry, calls, next_id, faults, plan>>

\* MultiStream as it would be if the probe's length were not looked at.
MultiStreamAnyLength(run) == run.accepts_ranges

\* engine.rs:115: which path the run takes.
MultiStream(run) == run.accepts_ranges /\ run.content_length > 0

\* StartRecord as it would be if the start left the byte count of an earlier
\* run in place.
StartRecordKeep(t, run) ==
    [t EXCEPT !.status = "Downloading",
              !.total_size = Some(run.content_length),
              !.save_path = FilePath(run.url)]

\* engine.rs:79-86: the record as the run's start leaves it.
StartRecord(t, run) ==
    [t EXCEPT !.status = "Downloading",
              !.total_size = Some(run.content_length),
              !.save_path = FilePath(run.url),
              !.downloaded_bytes = 0]

\* Start as it would be if the update of lines 79-86 put the record back
\* when find() finds none.
StartUpsert(r) ==
    /\ runs[r].pc = "start"
    /\ tasks' = IF Has(tasks, runs[r].task)
                THEN [tasks EXCEPT ![Find(tasks, runs[r].task)] = StartRecord(@, runs[r])]
                ELSE Append(tasks, StartRecord(NewTask(runs[r].task, runs[r].url), runs[r]))
    /\ runs' = DropAll([runs EXCEPT
                  ![r].reporter = "running",
                  ![r].live = IF MultiStream(runs[r]) THEN chunk_count ELSE 0,
                  ![r].pc = IF MultiStream(runs[r]) THEN "join" ELSE "get"])
    /\ UNCHANGED <<registry, calls, next_id, faults, plan>>

\* engine.rs:77-165 up to the next await: under the lock, the record (if it
\* is still there) goes to Downloading; the reporter is spawned; on the
\* multi-stream path the chunk_count workers are spawned.
Start(r) ==
    /\ runs[r].pc = "start"
    /\ tasks' = IF Has(tasks, runs[r].task)
                THEN [tasks EXCEPT ![Find(tasks, runs[r].task)] = StartRecord(@, runs[r])]
                ELSE tasks
    /\ runs' = DropAll([runs EXCEPT
                  ![r].reporter = "running",
                  ![r].live = IF MultiStream(runs[r]) THEN chunk_count ELSE 0,
                  ![r].pc = IF MultiStream(runs[r]) THEN "join" ELSE "get"])
    /\ UNCHANGED <<registry, calls, next_id, faults, plan>>

\* Bytes one range worker receives and writes.  Workers are counted, not
\* told apart, so the probe lengths are multiples of chunk_count and every
\* range has the length of the first.
WorkerBytes(run) ==
    RangeEnd(run.content_length, 0) - RangeStart(run.content_length, 0) + 1

\* engine.rs:136-163, one worker from its request to the end of its body:
\* the ranged GET, open, seek, write_all of what arrives, fetch_add.  The
\* worker is a task of its own: nothing here reads the orchestration's pc.
WorkerStream(r) ==
    /\ runs[r].live > 0
    /\ runs' = DropAll([runs EXCEPT ![r].live = @ - 1,
                            ![r].ranged = TRUE,
                            ![r].progress_counter = @ + WorkerBytes(runs[r])])
    /\ UNCHANGED <<tasks, registry, calls, next_id, faults, plan>>

\* engine.rs:146, 152, 154, 159: an unwrap() on a failed request, open, seek
\* or write panics the worker's task.
WorkerPanic(r) ==
    /\ runs[r].live > 0
    /\ runs' = DropAll([runs EXCEPT ![r].live = @ - 1,
                            ![r].ranged = TRUE,
                            ![r].panicked = @ + 1])
    /\ UNCHANGED <<tasks, registry, calls, next_id, plan>>
    /\ faults < MaxFaults
    /\ faults' = faults + 1

\* engine.rs:173: the single-stream GET fails and `?` returns Err; the
\* reporter, already spawned, is left running.
SingleGetFail(r) ==
    /\ runs[r].pc = "get"
    /\ runs' = DropAll([runs EXCEPT ![r].pc = "failed"])
    /\ UNCHANGED <<tasks, registry, calls, next_id, plan>>
    /\ faults < MaxFaults
    /\ faults' = faults + 1

\* engine.rs:173: the single-stream GET has its response.
SingleGetOk(r) ==
    /\ runs[r].pc = "get"
    /\ runs' = DropAll([runs EXCEPT ![r].pc = "stream"])
    /\ UNCHANGED <<tasks, registry, calls, next_id, faults, plan>>

\* engine.rs:176-178: one fragment arrives, is written, is counted.
SingleWrite(r) ==
    /\ runs[r].pc = "stream"
    /\ runs[r].frags < MaxFrags
    /\ runs' = DropAll([runs EXCEPT ![r].frags = @ + 1,
                            ![r].progress_counter = @ + 1])
    /\ UNCHANGED <<tasks, registry, calls, next_id, faults, plan>>

\* engine.rs:177: write_all fails and `?` returns Err.
SingleWriteFail(r) ==
    /\ runs[r].pc = "stream"
    /\ runs' = DropAll([runs EXCEPT ![r].pc = "failed"])
    /\ UNCHANGED <<tasks, registry, calls, next_id, plan>>
    /\ faults < MaxFaults
    /\ faults' = faults + 1

\* engine.rs:188-191: the record as the run's end leaves it.
FinalRecord(t, run) ==
    [t EXCEPT !.status = "Completed",
              !.downloaded_bytes = run.content_length]

\* engine.rs:182-194: reporter_handle.abort(), then under the lock the final
\* update of the record, if it is still there; Ok(()).
Finalize(r) ==
    /\ tasks' = IF Has(tasks, runs[r].task)
                THEN [tasks EXCEPT ![Find(tasks, runs[r].task)] = FinalRecord(@, runs[r])]
                ELSE tasks
    /\ runs' = DropAll([runs EXCEPT ![r].reporter = "stopped", ![r].pc = "done"])
    /\ UNCHANGED <<registry, calls, next_id, faults, plan>>

\* JoinFinish as it would be if the cleanup did not wait for every
\* JoinHandle.
JoinFinishEarly(r) ==
    /\ runs[r].pc = "join"
    /\ Finalize(r)

\* engine.rs:167-169 then 182-194: every JoinHandle has resolved (to Ok or
\* to a JoinError: `let _ =` drops either).
JoinFinish(r) ==
    /\ runs[r].pc = "join"
    /\ runs[r].live = 0
    /\ Finalize(r)

\* engine.rs:176 then 182-194: chunk() gives Ok(None) or Err(_); either ends
\* the `while let` loop.
SingleFinish(r) ==
    /\ runs[r].pc = "stream"
    /\ Finalize(r)

\* ReporterGuard as it would be without the status check of line 106.
ReporterGuardAny(status) == TRUE

\* engine.rs:106: the reporter writes only into a Downloading record.
ReporterGuard(status) == status = "Downloading"

\* engine.rs:99-112, one turn of the reporter's loop after its sleep: load
\* the counter; under the lock, if the record is there, write the bytes
\* when it is Downloading and break otherwise.  No record: loop on.
ReporterTick(r) ==
    /\ runs[r].reporter = "running"
    /\ IF Has(tasks, runs[r].task)
       THEN IF ReporterGuard(tasks[Find(tasks, runs[r].task)].status)
            THEN /\ tasks' = [tasks EXCEPT ![Find(tasks, runs[r].task)].downloaded_bytes =
                                       runs[r].progress_counter]
                 /\ UNCHANGED runs
            ELSE /\ runs' = DropAll([runs EXCEPT ![r].reporter = "stopped"])
                 /\ UNCHANGED tasks
       ELSE UNCHANGED <<tasks, runs>>
    /\ UNCHANGED <<registry, calls, next_id, faults, plan>>

(* ---------------------------- specification ---------------------------- *)

Handlers ==
    \/ \E url \in Urls : AddPush(url)
    \/ \E c \in calls : AddSpawn(c)
    \/ \E c \in calls : AddRegister(c)
    \/ \E id \in Ids : PauseAbort(id)
    \/ \E c \in calls : PauseMark(c)
    \/ \E id \in Ids : ResumeSpawn(id)
    \/ \E c \in calls : ResumeRegister(c)
    \/ \E id \in Ids : DeleteAbort(id)
    \/ \E c \in calls : DeleteRetain(c)
    \/ DeleteCompleted
    \/ DeleteAllClear
    \/ \E c \in calls : DeleteAllAbort(c)
    \/ \E c \in calls : DeleteAllTasks(c)

Engine ==
    \/ \E r \in 1..Len(runs) : SetupFail(r)
    \/ \E r \in 1..Len(runs), len \in ProbeLengths, ranges \in BOOLEAN :
          SetupOk(r, len, ranges)
    \/ \E r \in 1..Len(runs) : Start(r)
    \/ \E r \in 1..Len(runs) : WorkerStream(r)
    \/ \E r \in 1..Len(runs) : WorkerPanic(r)
    \/ \E r \in 1..Len(runs) : SingleGetFail(r)
    \/ \E r \in 1..Len(runs) : SingleGetOk(r)
    \/ \E r \in 1..Len(runs) : SingleWrite(r)
    \/ \E r \in 1..Len(runs) : SingleWriteFail(r)
    \/ \E r \in 1..Len(runs) : JoinFinish(r)
    \/ \E r \in 1..Len(runs) : SingleFinish(r)
    \/ \E r \in 1..Len(runs) : ReporterTick(r)

Next == Handlers \/ Engine

Spec == Init /\ [][Next]_vars

(* --------------------- the range loop on its own ----------------------- *)

PlanInit ==
    /\ tasks = <<>>
    /\ registry = <<>>
    /\ runs = <<>>
    /\ calls = {}
    /\ next_id = 1
    /\ faults = 0
    /\ plan \in [content_length : 1..PlanMaxSize, i : {0}, ranges : {<<>>},
                 underflow : {FALSE}]

\* engine.rs:123-129, one turn of the loop: the range of worker i.
PlanStep ==
    /\ plan.i < chunk_count
    /\ plan' = [plan EXCEPT
                  !.i = @ + 1,
                  !.ranges = Append(@, <<RangeStart(plan.content_length, plan.i),
                                         RangeEnd(plan.content_length, plan.i)>>),
                  !.underflow = @ \/ RangeUnderflows(plan.content_length, plan.i)]
    /\ UNCHANGED <<tasks, registry, runs, calls, next_id, faults>>

PlanNext == PlanStep

SpecPlan == PlanInit /\ [][PlanNext]_vars

(* ------------------------------- claims -------------------------------- *)

Status(ts, id) == ts[Find(ts, id)].status
Bytes(ts, id) == ts[Find(ts, id)].downloaded_bytes

RunsOf(id) == {r \in 1..Len(runs) : runs[r].task = id}

\* C1: in every reachable state, for every task id, at most one engine run
\* (its orchestration task together with the range workers it spawned) is
\* live and able to write to the task's destination file.
C1_OneLiveRunPerTask ==
    \A id \in Ids : Cardinality({r \in RunsOf(id) : RunLive(runs[r])}) <= 1

\* C2: once pause_download has taken a run's handle from the registry and
\* abort() has returned, no range worker and no single-stream loop of that
\* run writes to the destination file again (every write is counted in the
\* run's progress counter).
C2_NoWriteAfterPause ==
    [][\A r \in 1..Len(runs) :
          runs[r].paused =>
             ~(runs'[r].progress_counter > runs[r].progress_counter)]_vars

\* C3: a record whose status is Completed has total_size set and
\* downloaded_bytes equal to it, also when several runs for the id have
\* existed and their probes differed.
C3_CompletedHasAllBytes ==
    \A k \in 1..Len(tasks) :
        tasks[k].status = "Completed" =>
            /\ tasks[k].total_size # None
            /\ tasks[k].downloaded_bytes = tasks[k].total_size[1]

\* C4: a multi-stream run of which at least one range worker failed ends
\* with the record's status Error(reason), never Completed.
C4_WorkerFailureGivesError ==
    [][\A r \in 1..Len(runs) :
          (JoinFinish(r) /\ runs[r].panicked > 0 /\ Has(tasks, runs[r].task))
             => IsError(Status(tasks', runs[r].task))]_vars

\* C5: when delete_all returns, the store is empty and every engine run
\* that was live when delete_all was called has been cancelled: none of
\* them can write to its destination file any more.
C5_DeleteAllStopsRuns ==
    [][\A c \in calls :
          DeleteAllTasks(c) =>
             /\ tasks' = <<>>
             /\ \A r \in 1..c.run : ~RunLive(runs'[r])]_vars

\* C6: once pause_download has recorded Paused for a record, no engine run
\* and no progress reporter changes the record's status or
\* downloaded_bytes (until a resume or delete of that id, which are steps
\* of handlers, not of the engine).
C6_PausedStaysPaused ==
    [][(\E r \in 1..Len(runs) :
           Start(r) \/ JoinFinish(r) \/ SingleFinish(r) \/ ReporterTick(r))
         => \A k \in 1..Len(tasks) :
               tasks[k].status = "Paused" =>
                  /\ tasks'[k].status = "Paused"
                  /\ tasks'[k].downloaded_bytes = tasks[k].downloaded_bytes]_vars

\* C7: while a record's status stays Downloading from one store state to
\* the next, its downloaded_bytes does not decrease.
C7_BytesNonDecreasing ==
    [][\A id \in Ids :
          (/\ Has(tasks, id) /\ Has(tasks', id)
           /\ Status(tasks, id) = "Downloading"
           /\ Status(tasks', id) = "Downloading")
             => Bytes(tasks', id) >= Bytes(tasks, id)]_vars

\* C8: for every total_size > 0 the chunk_count ranges are computed without
\* unsigned underflow, each has start <= end, the first starts at 0, each
\* next one starts right after the one before, and the last ends at
\* total_size - 1.
C8_RangesPartition ==
    (plan.i = chunk_count /\ plan.content_length > 0) =>
        /\ ~plan.underflow
        /\ Len(plan.ranges) = chunk_count
        /\ plan.ranges[1][1] = 0
        /\ \A j \in 1..chunk_count : plan.ranges[j][1] <= plan.ranges[j][2]
        /\ \A j \in 1..(chunk_count - 1) :
              plan.ranges[j + 1][1] = plan.ranges[j][2] + 1
        /\ plan.ranges[chunk_count][2] = plan.content_length - 1

\* C9: an engine run that fails during setup (directory, probe, file
\* creation or pre-sizing) leaves the record with status Error(reason).
C9_SetupFailureGivesError ==
    [][\A r \in 1..Len(runs) :
          (SetupFail(r) /\ Has(tasks, runs[r].task))
             => IsError(Status(tasks', runs[r].task))]_vars

\* C10: resume_download on a record whose status is Pending, Downloading or
\* Completed leaves the store, the registry and the runs unchanged.
C10_ResumeOnlyPausedOrError ==
    [][\A id \in Ids :
          (/\ ResumeSpawn(id)
           /\ Has(tasks, id)
           /\ Status(tasks, id) \in {"Pending", "Downloading", "Completed"})
             => UNCHANGED <<tasks, registry, runs>>]_vars

\* C11: when delete_single has returned, the store holds no record with the
\* deleted id, and an id that was given out and whose record is gone never
\* has a record again: no engine run, reporter, pause or resume puts one
\* back.
C11_DeletedStaysDeleted ==
    [][/\ \A c \in calls : DeleteRetain(c) => ~Has(tasks', c.id)
       /\ \A id \in Ids :
             (id < next_id /\ ~Has(tasks, id)) => ~Has(tasks', id)]_vars

\* The record is gone while a run spawned for it has passed its start and
\* its reporter is still taking turns.
C11_Witness ==
    \E r \in 1..Len(runs) :
        /\ ~Has(tasks, runs[r].task)
        /\ runs[r].reporter = "running"
        /\ runs[r].pc \in {"join", "get", "stream"}

C13_PathByProbe ==
    \A r \in 1..Len(runs) :
        /\ (runs[r].pc = "join" \/ runs[r].live > 0 \/ runs[r].ranged)
              => (runs[r].accepts_ranges /\ runs[r].content_length > 0)
        /\ runs[r].pc \in {"get", "stream"}
              => /\ ~(runs[r].accepts_ranges /\ runs[r].content_length > 0)
                 /\ runs[r].live = 0
                 /\ ~runs[r].ranged

\* One run streams a body of known length from a server without range
\* support while another has sent a ranged request.
C13_Witness ==
    /\ \E r \in 1..Len(runs) :
          /\ runs[r].pc = "stream"
          /\ runs[r].content_length > 0
          /\ runs[r].frags > 0
    /\ \E r \in 1..Len(runs) : runs[r].ranged

\* C14: the filename of every record in the store is the last '/'-separated
\* part of the record's url (the fallback name when there is none), from
\* the submission on.
C14_FilenameFromUrl ==
    \A k \in 1..Len(tasks) : tasks[k].filename = Filename(tasks[k].url)

\* C15: when a run returns normally and its final update sets its record to
\* Completed, the registry holds no entry for the record's id after that
\* step.
C15_CompletedRunUnregistered ==
    [][\A r \in 1..Len(runs) :
          ((JoinFinish(r) \/ SingleFinish(r)) /\ Has(tasks, runs[r].task))
             => runs[r].task \notin DOMAIN registry']_vars

\* C16: in every step that removes a record from the store (the retain of
\* delete_single or delete_completed, the clear of delete_all), the registry
\* holds no entry for the record's id: whatever handle was registered for
\* it has been taken out, to be cancelled, before that step.
C16_CancelBeforeRemove ==
    [][\A k \in 1..Len(tasks) :
          ~Has(tasks', tasks[k].id) => tasks[k].id \notin DOMAIN registry]_vars

\* C17: a progress reporter does not outlive the deletion of its record
\* without an end in sight.  A turn of a reporter that finds no record
\* changes nothing, and a deleted record never comes back, so the only step
\* that can still end such a reporter is the abort in the cleanup of its
\* run's orchestration: whenever a reporter is running and its record is
\* gone, that orchestration is still alive.  (A reporter that finds its
\* record Paused ends at that turn.)
C17_ReporterTerminates ==
    \A r \in 1..Len(runs) :
        (runs[r].reporter = "running" /\ ~Has(tasks, runs[r].task))
           => runs[r].pc \in LivePcs

C19_CompletedAfterWorkers ==
    [][\A r \in 1..Len(runs) :
          /\ (JoinFinish(r) \/ SingleFinish(r))
                => /\ runs[r].live = 0
                   /\ runs'[r].live = 0
                   /\ runs'[r].reporter # "running"
                   /\ runs'[r].pc \notin LivePcs
          /\ (runs[r].pc \notin LivePcs /\ runs[r].live = 0)
                => /\ runs'[r].live = 0
                   /\ runs'[r].pc \notin LivePcs
                   /\ runs'[r].progress_counter <= runs[r].progress_counter]_vars

\* The only run there was is over and its record is Completed with all
\* bytes of a multi-stream download, one of whose workers had panicked:
\* the join waited for the workers that finished and for the one that
\* failed.
C19_Witness ==
    /\ Len(runs) = 1
    /\ runs[1].pc = "ended"
    /\ faults = 1
    /\ Has(tasks, runs[1].task)
    /\ Status(tasks, runs[1].task) = "Completed"
    /\ Bytes(tasks, runs[1].task) = chunk_count

\* C20: a record that is Completed stays Completed in every step that
\* keeps it in the store, unless the step is resume_download on its id; in
\* particular pause_download on a Completed record leaves its status.
C20_CompletedStaysCompleted ==
    [][\A id \in Ids :
          (/\ Has(tasks, id) /\ Has(tasks', id)
           /\ Status(tasks, id) = "Completed"
           /\ ~ResumeSpawn(id))
             => Status(tasks', id) = "Completed"]_vars

====
